---- MODULE Spec2Model ----
(***************************************************************************)
(* A model of cutadapt's semi-global aligner (src/cutadapt/_align.pyx):    *)
(* the Aligner extension type with its reference / min_overlap /           *)
(* indel_cost properties and its locate() method, and the module-level     *)
(* compare_prefixes() function.                                            *)
(*                                                                         *)
(* Python strings are sequences of one-character strings; bytes objects    *)
(* are sequences of byte values.  max_error_rate, a C double in the        *)
(* source, is held as a number of RateDen-ths: with RateDen a power of two *)
(* every product length * max_error_rate of the source is exact in IEEE    *)
(* double arithmetic, so the integer comparisons below are the source's.   *)
(***************************************************************************)
EXTENDS Integers, Sequences, FiniteSets, TLC

\* ------------------------------------------------------------------ bounds

\* Longest reference and query of the single-call specification LocateSpec.
MaxLen == 3
\* Longest reference and query of the life-cycle specification Spec.
MaxLifeLen == 2
\* Longest string handed to compare_prefixes in PrefixSpec.
MaxPrefixLen == 2
\* max_error_rate is a multiple of 1/RateDen.
RateDen == 4
\* Largest max_error_rate of UnclampedSpec, in RateDen-ths (beyond 1).
MaxRate == 6
\* Largest min_overlap passed to the constructor in LocateSpec.
MaxOverlap == 2
\* Largest min_overlap passed to the constructor or assigned in Spec.
MaxLifeOverlap == 1
\* Largest value assigned to indel_cost.
MaxIndel == 2

Min(a, b) == IF a <= b THEN a ELSE b
Max(a, b) == IF a >= b THEN a ELSE b

\* ------------------------------------------------- character encoding

\* ord() of the characters the model uses (str.encode('ascii')).
Ord(c) ==
    CASE c = "A" -> 65 [] c = "B" -> 66 [] c = "C" -> 67 [] c = "D" -> 68
      [] c = "G" -> 71 [] c = "H" -> 72 [] c = "K" -> 75 [] c = "M" -> 77
      [] c = "N" -> 78 [] c = "R" -> 82 [] c = "S" -> 83 [] c = "T" -> 84
      [] c = "U" -> 85 [] c = "V" -> 86 [] c = "W" -> 87 [] c = "X" -> 88
      [] c = "Y" -> 89 [] c = "Z" -> 90
      [] c = "a" -> 97 [] c = "c" -> 99 [] c = "g" -> 103 [] c = "n" -> 110
      [] c = "r" -> 114 [] c = "t" -> 116 [] c = "u" -> 117 [] c = "x" -> 120

\* str.encode('ascii')
Encode(s) == [i \in 1..Len(s) |-> Ord(s[i])]

\* str.lower() on one byte of an upper-case letter
Lower(b) == b + 32

\* d = dict(A=1, C=2, G=4, T=8, U=8), as <<ord(key), value>> pairs
acgt_dict == { <<65, 1>>, <<67, 2>>, <<71, 4>>, <<84, 8>>, <<85, 8>> }

\* iupac = dict(X=0, A=A, ..., N=A|C|G|T), as <<ord(key), value>> pairs
iupac_dict ==
    { <<88, 0>>, <<65, 1>>, <<67, 2>>, <<71, 4>>, <<84, 8>>, <<85, 8>>,
      <<82, 5>>, <<89, 10>>, <<83, 6>>, <<87, 9>>, <<75, 12>>, <<77, 3>>,
      <<66, 14>>, <<68, 13>>, <<72, 11>>, <<86, 7>>, <<78, 15>> }

\* t = bytearray(b'\0') * 256; t[ord(c)] = v; t[ord(c.lower())] = v
MakeTable(d) ==
    [b \in 0..255 |->
        IF \E p \in d : p[1] = b \/ Lower(p[1]) = b
        THEN (CHOOSE p \in d : p[1] = b \/ Lower(p[1]) = b)[2]
        ELSE 0]

ACGT_TABLE == MakeTable(acgt_dict)
IUPAC_TABLE == MakeTable(iupac_dict)

\* bytes.translate(table)
Translate(bs, table) == [i \in 1..Len(bs) |-> table[bs[i]]]

\* The C operator & on two table values (0..15).
RECURSIVE BitAnd(_, _)
BitAnd(a, b) ==
    IF a = 0 \/ b = 0 THEN 0
    ELSE (a % 2) * (b % 2) + 2 * BitAnd(a \div 2, b \div 2)

\* ------------------------------------------------------ DP structures

\* ctypedef struct _Entry
Entry(cost, matches, origin) ==
    [cost |-> cost, matches |-> matches, origin |-> origin]

\* ctypedef struct _Match
Match(origin, cost, matches, ref_stop, query_stop) ==
    [origin |-> origin, cost |-> cost, matches |-> matches,
     ref_stop |-> ref_stop, query_stop |-> query_stop]

\* What a call returns or raises.
None == [kind |-> "None", t |-> <<>>]
Returned(t) == [kind |-> "tuple", t |-> t]
Raised(exc) == [kind |-> exc, t |-> <<>>]
Pending == [kind |-> "pending", t |-> <<>>]

\* ------------------------------------------------------ Aligner.locate

\* query_bytes, translated as the wildcard flags say
QueryBytes(self, query) ==
    IF self.wildcard_query THEN Translate(Encode(query), IUPAC_TABLE)
    ELSE IF self.wildcard_ref THEN Translate(Encode(query), ACGT_TABLE)
    ELSE Encode(query)

\* compare_ascii
CompareAscii(self) == ~self.wildcard_query /\ ~self.wildcard_ref

\* characters_equal for row i, column j
CharactersEqual(self, s2, i, j) ==
    IF CompareAscii(self)
    THEN self._reference[i] = s2[j]
    ELSE BitAnd(self._reference[i], s2[j]) # 0

\* k = <int> (max_error_rate * m)
MaxErrors(self) == (self.max_error_rate * self.m) \div RateDen

\* max_n: the largest column to compute
MaxN(self, n) ==
    IF ~self.start_in_query THEN Min(n, self.m + MaxErrors(self)) ELSE n

\* min_n: the smallest column to compute
MinN(self, n) ==
    IF ~self.stop_in_query THEN Max(0, n - self.m - MaxErrors(self)) ELSE 0

\* The entry written to column[i] when column min_n is filled.
SeedEntry(self, i, min_n) ==
    IF ~self.start_in_reference /\ ~self.start_in_query
    THEN Entry(Max(i, min_n) * self._insertion_cost, 0, 0)
    ELSE IF self.start_in_reference /\ ~self.start_in_query
    THEN Entry(min_n * self._insertion_cost, 0, Min(0, min_n - i))
    ELSE IF ~self.start_in_reference /\ self.start_in_query
    THEN Entry(i * self._insertion_cost, 0, Max(0, min_n - i))
    ELSE Entry(Min(i, min_n) * self._insertion_cost, 0, min_n - i)

\* SeedColumn that fills the column only until 'last' (the source's TODO)
\* and leaves the rows below as the buffer holds them.
SeedColumnToLast(self, column, min_n) ==
    [i \in DOMAIN column |->
        IF i \in 0..Min(self.m, MaxErrors(self) + 1)
        THEN SeedEntry(self, i, min_n) ELSE column[i]]

\* Fill column min_n: for i in range(m + 1) on the buffer the object holds.
SeedColumn(self, column, min_n) ==
    [i \in DOMAIN column |->
        IF i \in 0..self.m THEN SeedEntry(self, i, min_n) ELSE column[i]]

\* best, as initialised before the column loop
InitBest(self, n) == Match(0, self.m + n, 0, self.m, n)

\* InitLast with the band one row too narrow (k instead of k + 1).
InitLastTight(self) ==
    IF self.start_in_reference THEN self.m
    ELSE Min(self.m, MaxErrors(self))

\* Ukkonen's trick: index of the last cell that is at most k
InitLast(self) ==
    IF self.start_in_reference THEN self.m
    ELSE Min(self.m, MaxErrors(self) + 1)

\* The new entry of row i: diag_entry is the old column[i-1], column[i] is
\* still the old entry and column[i-1] the new one.
Cell(self, characters_equal, diag_entry, column, i) ==
    IF characters_equal
    THEN Entry(diag_entry.cost, diag_entry.matches + 1, diag_entry.origin)
    ELSE LET cost_diag == diag_entry.cost + 1
             cost_deletion == column[i].cost + self._deletion_cost
             cost_insertion == column[i-1].cost + self._insertion_cost
         IN  IF cost_diag <= cost_deletion /\ cost_diag <= cost_insertion
             THEN Entry(cost_diag, diag_entry.matches, diag_entry.origin)
             ELSE IF cost_insertion <= cost_deletion
             THEN Entry(cost_insertion, column[i-1].matches, column[i-1].origin)
             ELSE Entry(cost_deletion, column[i].matches, column[i].origin)

\* for i in range(1, last + 1)
RECURSIVE FillRows(_, _, _, _, _, _, _)
FillRows(self, s2, j, column, diag_entry, i, last) ==
    IF i > last THEN column
    ELSE FillRows(self, s2, j,
                  [column EXCEPT ![i] =
                      Cell(self, CharactersEqual(self, s2, i, j), diag_entry, column, i)],
                  column[i], i + 1, last)

\* fill in first entry in this column
FirstEntry(self, column, j) ==
    IF self.start_in_query
    THEN [column EXCEPT ![0].origin = j]
    ELSE [column EXCEPT ![0].cost = j * self._insertion_cost]

\* ShrinkLast that also drops the rows whose cost is exactly k.
RECURSIVE ShrinkLastStrict(_, _, _)
ShrinkLastStrict(column, last, k) ==
    IF last >= 0 /\ column[last].cost >= k
    THEN ShrinkLastStrict(column, last - 1, k)
    ELSE last

\* while last >= 0 and column[last].cost > k: last -= 1
RECURSIVE ShrinkLast(_, _, _)
ShrinkLast(column, last, k) ==
    IF last >= 0 /\ column[last].cost > k
    THEN ShrinkLast(column, last - 1, k)
    ELSE last

\* Accepts with the error rate taken over the whole reference (m) instead
\* of the aligned length.
AcceptsRateOfM(self, length, cost, matches, best) ==
    /\ length >= self._min_overlap
    /\ cost * RateDen <= self.m * self.max_error_rate
    /\ \/ matches > best.matches
       \/ matches = best.matches /\ cost < best.cost

\* The acceptance test of an exit cell against best.
Accepts(self, length, cost, matches, best) ==
    /\ length >= self._min_overlap
    /\ cost * RateDen <= length * self.max_error_rate
    /\ \/ matches > best.matches
       \/ matches = best.matches /\ cost < best.cost

\* exact match, stop early
ExactMatch(self, cost, matches) == cost = 0 /\ matches = self.m

\* One iteration of the column loop; stop is the break.
ColumnStep(self, s2, j, st) ==
    LET k == MaxErrors(self)
        column == FillRows(self, s2, j, FirstEntry(self, st.column, j),
                           st.column[0], 1, st.last)
        shrunk == ShrinkLast(column, st.last, k)
        e == column[self.m]
        length == self.m + Min(e.origin, 0)
    IN  IF shrunk < self.m
        THEN [column |-> column, last |-> shrunk + 1, best |-> st.best,
              stop |-> FALSE]
        ELSE IF self.stop_in_query /\ Accepts(self, length, e.cost, e.matches, st.best)
        THEN [column |-> column, last |-> shrunk,
              best |-> Match(e.origin, e.cost, e.matches, self.m, j),
              stop |-> ExactMatch(self, e.cost, e.matches)]
        ELSE [column |-> column, last |-> shrunk, best |-> st.best,
              stop |-> FALSE]

\* for j in range(min_n + 1, max_n + 1)
RECURSIVE Columns(_, _, _, _, _)
Columns(self, s2, j, max_n, st) ==
    IF j > max_n \/ st.stop THEN st
    ELSE Columns(self, s2, j + 1, max_n, ColumnStep(self, s2, j, st))

\* FirstRow that sweeps the whole last column whatever stop_in_reference is.
FirstRowZero(self) == 0

\* first_i = 0 if self.stop_in_reference else m
FirstRow(self) == IF self.stop_in_reference THEN 0 ELSE self.m

\* search in last column: for i in range(first_i, m+1)
RECURSIVE Sweep(_, _, _, _, _)
Sweep(self, column, n, i, best) ==
    IF i > self.m THEN best
    ELSE LET e == column[i]
             length == i + Min(e.origin, 0)
         IN  Sweep(self, column, n, i + 1,
                   IF Accepts(self, length, e.cost, e.matches, best)
                   THEN Match(e.origin, e.cost, e.matches, i, n)
                   ELSE best)

\* best.cost was initialized with this value.
Unchanged(self, n, best) == best.cost = self.m + n

\* The value locate returns for best, or the failed assertion.
Outcome(self, n, best) ==
    IF Unchanged(self, n, best) THEN None
    ELSE LET start1 == IF best.origin >= 0 THEN 0 ELSE -best.origin
             start2 == IF best.origin >= 0 THEN best.origin ELSE 0
         IN  IF ~(best.ref_stop - start1 > 0)
             THEN Raised("AssertionError")
             ELSE Returned(<<start1, best.ref_stop, start2, best.query_stop,
                             best.matches, best.cost>>)

\* locate(query) on the object self: the value returned (or the failed
\* assertion), the column buffer the call leaves behind and best as it is
\* when the sentinel is tested.
LocateRun(self, query) ==
    LET n == Len(query)
        s2 == QueryBytes(self, query)
        min_n == MinN(self, n)
        max_n == MaxN(self, n)
        st == Columns(self, s2, min_n + 1, max_n,
                      [column |-> SeedColumn(self, self.column, min_n),
                       last |-> InitLast(self),
                       best |-> InitBest(self, n),
                       stop |-> FALSE])
        best == IF max_n = n
                THEN Sweep(self, st.column, n, FirstRow(self), st.best)
                ELSE st.best
    IN  [ret |-> Outcome(self, n, best), column |-> st.column, best |-> best]

\* ------------------------------------------------- Aligner properties

\* PyMem_Realloc(self.column, (len(reference) + 1) * sizeof(_Entry)) when it
\* succeeds: the entries that fit are kept, the new ones are uninitialised
\* (fill is what happens to be in them).
Realloc(column, size, fill) ==
    [i \in 0..(size - 1) |-> IF i \in DOMAIN column THEN column[i] ELSE fill]

\* The bytes kept in self._reference for a reference string.
ReferenceBytes(self, reference) ==
    IF self.wildcard_ref THEN Translate(Encode(reference), IUPAC_TABLE)
    ELSE IF self.wildcard_query THEN Translate(Encode(reference), ACGT_TABLE)
    ELSE Encode(reference)

\* property reference, __set__: mem.null says that the reallocation is
\* refused, and mem.fill is the content of the uninitialised entries.
ReferenceSet(self, reference, mem) ==
    IF mem.null
    THEN [self |-> self, ret |-> Raised("MemoryError")]
    ELSE [self |-> [self EXCEPT
                      !.column = Realloc(self.column, Len(reference) + 1, mem.fill),
                      !._reference = ReferenceBytes(self, reference),
                      !.m = Len(reference),
                      !.str_reference = reference],
          ret |-> None]

\* MinOverlapSet that stores the value before it checks it.
MinOverlapSetThenCheck(self, value) ==
    [self |-> [self EXCEPT !._min_overlap = value],
     ret |-> IF value < 1 THEN Raised("ValueError") ELSE None]

\* property min_overlap, __set__
MinOverlapSet(self, value) ==
    IF value < 1
    THEN [self |-> self, ret |-> Raised("ValueError")]
    ELSE [self |-> [self EXCEPT !._min_overlap = value], ret |-> None]

\* property indel_cost, __set__
IndelCostSet(self, value) ==
    IF value < 1
    THEN [self |-> self, ret |-> Raised("ValueError")]
    ELSE [self |-> [self EXCEPT !._insertion_cost = value,
                                !._deletion_cost = value],
          ret |-> None]

\* The object before __cinit__ runs: Cython zeroes the C fields and sets the
\* object fields to None (here the empty string), column is the NULL pointer.
Zeroed ==
    [m |-> 0, column |-> <<>>, max_error_rate |-> 0,
     start_in_reference |-> FALSE, start_in_query |-> FALSE,
     stop_in_reference |-> FALSE, stop_in_query |-> FALSE,
     _insertion_cost |-> 0, _deletion_cost |-> 0, _min_overlap |-> 0,
     wildcard_ref |-> FALSE, wildcard_query |-> FALSE,
     _reference |-> <<>>, str_reference |-> <<>>]

\* Aligner.__cinit__ with a reallocation that succeeds.
Construct(reference, max_error_rate, min_overlap, start_in_reference, stop_in_reference, start_in_query, stop_in_query, wildcard_ref, wildcard_query, mem) ==
    LET flagged == [Zeroed EXCEPT
                      !.max_error_rate = max_error_rate,
                      !.start_in_reference = start_in_reference,
                      !.start_in_query = start_in_query,
                      !.stop_in_reference = stop_in_reference,
                      !.stop_in_query = stop_in_query,
                      !.wildcard_ref = wildcard_ref,
                      !.wildcard_query = wildcard_query,
                      !.str_reference = reference]
        referenced == ReferenceSet(flagged, reference, mem).self
    IN  [referenced EXCEPT !._min_overlap = min_overlap,
                           !._insertion_cost = 1,
                           !._deletion_cost = 1]

\* ------------------------------------------------------ compare_prefixes

\* ref_bytes of compare_prefixes
PrefixRefBytes(ref, wildcard_ref, wildcard_query) ==
    IF wildcard_ref THEN Translate(Encode(ref), IUPAC_TABLE)
    ELSE IF wildcard_query THEN Translate(Encode(ref), ACGT_TABLE)
    ELSE Encode(ref)

\* PrefixQueryBytes without the elif branch: the query stays raw ASCII when
\* only wildcard_ref is set.
PrefixQueryBytesRaw(query, wildcard_ref, wildcard_query) ==
    IF wildcard_query THEN Translate(Encode(query), IUPAC_TABLE)
    ELSE Encode(query)

\* query_bytes of compare_prefixes
PrefixQueryBytes(query, wildcard_ref, wildcard_query) ==
    IF wildcard_query THEN Translate(Encode(query), IUPAC_TABLE)
    ELSE IF wildcard_ref THEN Translate(Encode(query), ACGT_TABLE)
    ELSE Encode(query)

\* Whether position i (from 1) counts as a match.
PrefixMatch(ref, query, wildcard_ref, wildcard_query, i) ==
    IF ~wildcard_ref /\ ~wildcard_query
    THEN ref[i] = query[i]
    ELSE BitAnd(PrefixRefBytes(ref, wildcard_ref, wildcard_query)[i],
                PrefixQueryBytes(query, wildcard_ref, wildcard_query)[i]) # 0

\* for i in range(length): matches += 1
RECURSIVE CountMatches(_, _, _, _, _, _, _)
CountMatches(ref, query, wildcard_ref, wildcard_query, i, length, matches) ==
    IF i > length THEN matches
    ELSE CountMatches(ref, query, wildcard_ref, wildcard_query, i + 1, length,
                      IF PrefixMatch(ref, query, wildcard_ref, wildcard_query, i)
                      THEN matches + 1 ELSE matches)

\* compare_prefixes(ref, query, wildcard_ref, wildcard_query)
compare_prefixes(ref, query, wildcard_ref, wildcard_query) ==
    LET length == Min(Len(ref), Len(query))
        matches == CountMatches(ref, query, wildcard_ref, wildcard_query,
                                1, length, 0)
    IN  Returned(<<0, length, 0, length, matches, length - matches>>)

\* ------------------------------------------------------- state machine

\* self: the Aligner object (its fields); call: the last call made, what it
\* returned or raised, and for locate and compare_prefixes its arguments.
VARIABLES self, call

vars == <<self, call>>

\* All strings over an alphabet up to a length.
Strings(alphabet, maxlen) == UNION { [1..l -> alphabet] : l \in 0..maxlen }

\* What PyMem_Realloc may answer: NULL, or memory whose new entries hold
\* whatever they held.
Fills == { Entry(0, 9, 1) }
Mems == { [null |-> FALSE, fill |-> f] : f \in Fills }
NullMem == [null |-> TRUE, fill |-> Entry(0, 0, 0)]

\* max_error_rate in [0, 1], in RateDen-ths
Rates == 0..RateDen
\* the rates 0 and 1
LifeRates == {0, RateDen}
\* max_error_rate as the constructor takes it: any value, beyond 1 too
UnclampedRates == 0..MaxRate
\* min_overlap as passed to the constructor, which does not check it
CtorOverlaps == 0..MaxOverlap
LifeOverlaps == 0..MaxLifeOverlap
\* values assigned to indel_cost, valid or not
IndelValues == 0..MaxIndel

LocateAlphabet == {"A", "N"}
LifeAlphabet == {"A", "N"}
PrefixAlphabet == {"A", "G", "R", "N", "X", "a", "Z"}

\* The boundary flags <<start_in_reference, stop_in_reference,
\* start_in_query, stop_in_query>>: all sixteen, and for the life cycle the
\* four start combinations with both stops allowed or both forbidden.
Flags == BOOLEAN \X BOOLEAN \X BOOLEAN \X BOOLEAN
LifeFlags == { f \in Flags : f[2] = f[4] }

\* The objects a constructor call yields, for arguments from the given sets.
Constructed(references, rates, overlaps, flags) ==
    { Construct(reference, rate, min_overlap, f[1], f[2], f[3], f[4], wr, wq, mem) :
        reference \in references, rate \in rates, min_overlap \in overlaps,
        f \in flags, wr \in BOOLEAN, wq \in BOOLEAN, mem \in Mems }

Called(op, args, ret) == [op |-> op, args |-> args, ret |-> ret]

\* self.locate(query)
Locate(query) ==
    LET r == LocateRun(self, query)
    IN  /\ self' = [self EXCEPT !.column = r.column]
        /\ call' = Called("locate", <<query>>, r.ret)

\* self.reference = reference
SetReference(reference, mem) ==
    LET r == ReferenceSet(self, reference, mem)
    IN  /\ self' = r.self
        /\ call' = Called("reference", <<>>, r.ret)

\* self.min_overlap = value
SetMinOverlap(value) ==
    LET r == MinOverlapSet(self, value)
    IN  /\ self' = r.self
        /\ call' = Called("min_overlap", <<>>, r.ret)

\* self.indel_cost = value
SetIndelCost(value) ==
    LET r == IndelCostSet(self, value)
    IN  /\ self' = r.self
        /\ call' = Called("indel_cost", <<>>, r.ret)

\* The life cycle of one Aligner: constructed, then any sequence of
\* assignments and locate calls.
Init ==
    /\ self \in Constructed(Strings(LifeAlphabet, MaxLifeLen), LifeRates,
                          LifeOverlaps, LifeFlags)
    /\ call = Called("__cinit__", <<>>, None)

Next ==
    \/ \E query \in Strings(LifeAlphabet, MaxLifeLen) : Locate(query)
    \/ \E reference \in Strings(LifeAlphabet, MaxLifeLen), mem \in Mems \cup {NullMem} :
          SetReference(reference, mem)
    \/ \E value \in LifeOverlaps : SetMinOverlap(value)
    \/ \E value \in IndelValues : SetIndelCost(value)

Spec == Init /\ [][Next]_vars

\* One locate call on a newly configured Aligner: constructed, indel_cost
\* possibly assigned, then locate(query).
LocateInit ==
    /\ self \in Constructed(Strings(LocateAlphabet, MaxLen), Rates,
                          CtorOverlaps, Flags)
    /\ call = Called("__cinit__", <<>>, None)

LocateNext ==
    /\ call.op # "locate"
    /\ \/ \E query \in Strings(LocateAlphabet, MaxLen) : Locate(query)
       \/ \E value \in IndelValues : SetIndelCost(value)

LocateSpec == LocateInit /\ [][LocateNext]_vars

\* One locate call as in LocateSpec, on an Aligner whose max_error_rate is
\* whatever the constructor was given.
UnclampedInit ==
    /\ self \in Constructed(Strings(LocateAlphabet, MaxLen), UnclampedRates,
                          CtorOverlaps, Flags)
    /\ call = Called("__cinit__", <<>>, None)

UnclampedSpec == UnclampedInit /\ [][LocateNext]_vars

\* One call of compare_prefixes; no Aligner is involved.
PrefixInit ==
    /\ self = Zeroed
    /\ \E ref \in Strings(PrefixAlphabet, MaxPrefixLen),
          query \in Strings(PrefixAlphabet, MaxPrefixLen),
          wildcard_ref \in BOOLEAN, wildcard_query \in BOOLEAN :
          call = Called("compare_prefixes",
                        <<ref, query, wildcard_ref, wildcard_query>>, Pending)

ComparePrefixes ==
    /\ call.op = "compare_prefixes"
    /\ call.ret = Pending
    /\ call' = [call EXCEPT !.ret = compare_prefixes(call.args[1], call.args[2],
                                                     call.args[3], call.args[4])]
    /\ UNCHANGED self

PrefixNext == ComparePrefixes

PrefixSpec == PrefixInit /\ [][PrefixNext]_vars

\* ---------------------------------------------- what the claims refer to

\* The last call was locate and returned a tuple.
LocateReturnedTuple == call.op = "locate" /\ call.ret.kind = "tuple"

\* The query of the last locate call and the fields of the returned tuple.
Query == call.args[1]
refstart == call.ret.t[1]
refstop == call.ret.t[2]
querystart == call.ret.t[3]
querystop == call.ret.t[4]
matches == call.ret.t[5]
errors == call.ret.t[6]

\* The alignments of reference and query, by exhaustive enumeration: every
\* path of diagonal steps (a match, or a mismatch of cost 1) and of steps
\* that consume one reference or one query character (an insertion or
\* deletion, of the configured cost) from <<i0, j0>> to <<i, j>>, as the set
\* of <<matches, errors>> the paths have.
RECURSIVE PathScores(_, _, _, _, _, _)
PathScores(obj, s2, i0, j0, i, j) ==
    IF i < i0 \/ j < j0 THEN {}
    ELSE (IF i = i0 /\ j = j0 THEN { <<0, 0>> } ELSE {})
         \cup { IF CharactersEqual(obj, s2, i, j)
                THEN <<p[1] + 1, p[2]>> ELSE <<p[1], p[2] + 1>> :
                p \in PathScores(obj, s2, i0, j0, i - 1, j - 1) }
         \cup { <<p[1], p[2] + obj._insertion_cost>> :
                p \in PathScores(obj, s2, i0, j0, i - 1, j) }
         \cup { <<p[1], p[2] + obj._deletion_cost>> :
                p \in PathScores(obj, s2, i0, j0, i, j - 1) }

\* Where the boundary flags let an alignment start and stop.
PermittedStart(obj, i, j) ==
    /\ i = 0 \/ j = 0
    /\ i > 0 => obj.start_in_reference
    /\ j > 0 => obj.start_in_query

PermittedStop(obj, n, i, j) ==
    /\ i = obj.m \/ j = n
    /\ i < obj.m => obj.stop_in_reference
    /\ j < n => obj.stop_in_query

\* All alignments the boundary flags permit, as tuples of the shape locate
\* returns.
Alignments(obj, query) ==
    LET n == Len(query)
        s2 == QueryBytes(obj, query)
        cells == (0..obj.m) \X (0..n)
    IN  UNION { { <<a[1], b[1], a[2], b[2], p[1], p[2]>> :
                  p \in PathScores(obj, s2, a[1], a[2], b[1], b[2]) } :
                <<a, b>> \in { ab \in cells \X cells :
                                 /\ PermittedStart(obj, ab[1][1], ab[1][2])
                                 /\ PermittedStop(obj, n, ab[2][1], ab[2][2])
                                 /\ ab[1][1] <= ab[2][1]
                                 /\ ab[1][2] <= ab[2][2] } }

\* The permitted alignments that cover at least min_overlap reference
\* characters within the error rate.  Only alignments that cover at least
\* one character of the reference and one of the query are counted, so that
\* what is found against them does not rest on empty alignments.
Candidates(obj, query) ==
    { a \in Alignments(obj, query) :
        /\ a[2] > a[1] /\ a[4] > a[3]
        /\ a[2] - a[1] >= obj._min_overlap
        /\ a[6] * RateDen <= (a[2] - a[1]) * obj.max_error_rate }

\* ------------------------------------------------------------------ C1

\* C1: with min_overlap >= 1, a tuple returned by locate satisfies
\* 0 <= refstart < refstop <= m, 0 <= querystart < querystop <= n and
\* matches >= 0 (n = 0 included).
C1_TupleWithinBounds ==
    (LocateReturnedTuple /\ self._min_overlap >= 1) =>
        /\ 0 <= refstart /\ refstart < refstop /\ refstop <= self.m
        /\ 0 <= querystart /\ querystart < querystop /\ querystop <= Len(Query)
        /\ matches >= 0

\* ------------------------------------------------------------------ C2

\* C2: a tuple returned by locate has
\* errors <= (refstop - refstart) * max_error_rate.
C2_ErrorRateWithinLimit ==
    LocateReturnedTuple =>
        errors * RateDen <= (refstop - refstart) * self.max_error_rate

\* A tuple with errors taken from the bottom-row check (the query suffix is
\* skipped) under an indel cost above 1.
C2_Witness ==
    /\ LocateReturnedTuple
    /\ errors >= 1
    /\ querystop < Len(Query)
    /\ self._insertion_cost > 1

\* ------------------------------------------------------------------ C3

\* C3: the returned tuple skips only what the boundary flags permit, never
\* both prefixes and never both suffixes.
C3_SkipsOnlyPermitted ==
    LocateReturnedTuple =>
        /\ refstart > 0 => self.start_in_reference
        /\ querystart > 0 => self.start_in_query
        /\ refstop < self.m => self.stop_in_reference
        /\ querystop < Len(Query) => self.stop_in_query
        /\ refstart = 0 \/ querystart = 0
        /\ refstop = self.m \/ querystop = Len(Query)

\* A tuple that skips a reference prefix and a query suffix.
C3_Witness ==
    /\ LocateReturnedTuple
    /\ refstart > 0
    /\ querystop < Len(Query)

\* ------------------------------------------------------------------ C4

\* C4: no candidate alignment has more matches than the returned tuple, and
\* none with the same number of matches has fewer errors (for a valid
\* min_overlap, that is >= 1).
C4_ReturnedIsOptimal ==
    (LocateReturnedTuple /\ self._min_overlap >= 1) =>
        \A a \in Candidates(self, Query) :
            /\ a[5] <= matches
            /\ a[5] = matches => a[6] >= errors

\* ------------------------------------------------------------------ C5

\* An exact overlap: a run of length >= 1 and >= min_overlap of matching
\* characters from a permitted start to a permitted stop.
ExactOverlapExists(obj, query) ==
    LET n == Len(query)
        s2 == QueryBytes(obj, query)
    IN  \E i0 \in 0..obj.m, j0 \in 0..n, length \in 1..Min(obj.m, n) :
            /\ length >= obj._min_overlap
            /\ i0 + length <= obj.m
            /\ j0 + length <= n
            /\ PermittedStart(obj, i0, j0)
            /\ PermittedStop(obj, n, i0 + length, j0 + length)
            /\ \A t \in 1..length : CharactersEqual(obj, s2, i0 + t, j0 + t)

\* C5: with max_error_rate = 0, locate returns a tuple exactly when an exact
\* overlap exists that the boundary flags permit and that covers at least
\* min_overlap reference characters; the tuple then has errors = 0 and
\* matches = refstop - refstart.
C5_ExactMatchIff ==
    (call.op = "locate" /\ self.max_error_rate = 0) =>
        /\ call.ret.kind = "tuple" <=> ExactOverlapExists(self, Query)
        /\ call.ret.kind = "tuple" =>
              errors = 0 /\ matches = refstop - refstart

\* An exact partial overlap found under max_error_rate = 0: a reference
\* prefix is skipped and more than one character matches.
C5_Witness ==
    /\ LocateReturnedTuple
    /\ self.max_error_rate = 0
    /\ refstart > 0
    /\ matches > 1

\* ------------------------------------------------------------------ C6

\* C6: when the returned tuple has the maximal number of matches and, for
\* it, the minimal number of errors, no candidate with the same matches and
\* errors starts further left in the query.
C6_LeftmostInQuery ==
    (LocateReturnedTuple /\ self._min_overlap >= 1 /\ C4_ReturnedIsOptimal) =>
        \A a \in Candidates(self, Query) :
            (a[5] = matches /\ a[6] = errors) => a[3] >= querystart

\* ------------------------------------------------------------------ C7

\* C7: locate never fails: every call ends by returning None or a tuple
\* (the assertion best.ref_stop - start1 > 0 holds).
C7_LocateNeverFails ==
    call.op = "locate" => call.ret.kind \in {"None", "tuple"}

\* ------------------------------------------------------------------ C8

\* C8: an assignment of min_overlap or indel_cost that goes through stored
\* a value >= 1 (a value < 1 raises ValueError), the only failure of a
\* reference assignment is MemoryError, and a call that raised either left
\* every field of the Aligner as it was.  What locate returns is a function
\* of the fields and the query (LocateRun), so it is unchanged with them.
C8_RejectedAssignment ==
    /\ (call'.op = "min_overlap" /\ call'.ret = None) => self'._min_overlap >= 1
    /\ (call'.op = "indel_cost" /\ call'.ret = None) =>
          self'._insertion_cost >= 1 /\ self'._deletion_cost >= 1
    /\ (call'.op \in {"min_overlap", "indel_cost"} /\ call'.ret # None) =>
          call'.ret = Raised("ValueError")
    /\ (call'.op = "reference" /\ call'.ret # None) =>
          call'.ret = Raised("MemoryError")
    /\ call'.ret.kind \in {"ValueError", "MemoryError"} => self' = self

\* C8 as a property of every step.
C8_RejectedLeavesUnchanged == [][C8_RejectedAssignment]_vars

\* A rejected assignment on an Aligner that holds a non-empty reference and
\* an indel cost assigned earlier.
C8_Witness ==
    /\ call.ret.kind \in {"ValueError", "MemoryError"}
    /\ self.m > 0
    /\ self._insertion_cost > 1

\* ------------------------------------------------------------------ C9

\* A newly constructed Aligner with the reference and configuration of obj;
\* its column buffer is new memory.
Fresh(obj) ==
    IndelCostSet(
        Construct(obj.str_reference, obj.max_error_rate, obj._min_overlap,
                  obj.start_in_reference, obj.stop_in_reference,
                  obj.start_in_query, obj.stop_in_query,
                  obj.wildcard_ref, obj.wildcard_query,
                  [null |-> FALSE, fill |-> Entry(0, 0, 0)]),
        obj._insertion_cost).self

\* C9: m, the size of the column buffer and the translated reference always
\* correspond to the current reference, and every locate call returns what
\* a newly constructed Aligner with the same reference and configuration
\* returns for the query.
C9_HistoryIndependent ==
    /\ self.m = Len(self.str_reference)
    /\ DOMAIN self.column = 0..self.m
    /\ self._reference = ReferenceBytes(self, self.str_reference)
    /\ call.op = "locate" => call.ret = LocateRun(Fresh(self), Query).ret

\* A locate call that returned a tuple with errors on an Aligner whose indel
\* cost was assigned after construction.
C9_Witness ==
    /\ LocateReturnedTuple
    /\ self._insertion_cost > 1
    /\ self.m = MaxLifeLen
    /\ errors > 0

\* ----------------------------------------------------------------- C10

\* Upper case of the model's lower-case characters.
Upper(c) ==
    CASE c = "a" -> "A" [] c = "c" -> "C" [] c = "g" -> "G" [] c = "n" -> "N"
      [] c = "r" -> "R" [] c = "t" -> "T" [] c = "u" -> "U" [] c = "x" -> "X"
      [] OTHER -> c

\* The nucleotides a character stands for: an IUPAC code when wildcards are
\* interpreted, otherwise only A, C, G, T and U.
Nucleotides(c, wildcard) ==
    LET u == Upper(c)
    IN  CASE u = "A" -> {"A"} [] u = "C" -> {"C"} [] u = "G" -> {"G"}
          [] u \in {"T", "U"} -> {"T"}
          [] wildcard /\ u = "R" -> {"A", "G"}
          [] wildcard /\ u = "Y" -> {"C", "T"}
          [] wildcard /\ u = "S" -> {"G", "C"}
          [] wildcard /\ u = "W" -> {"A", "T"}
          [] wildcard /\ u = "K" -> {"G", "T"}
          [] wildcard /\ u = "M" -> {"A", "C"}
          [] wildcard /\ u = "B" -> {"C", "G", "T"}
          [] wildcard /\ u = "D" -> {"A", "G", "T"}
          [] wildcard /\ u = "H" -> {"A", "C", "T"}
          [] wildcard /\ u = "V" -> {"A", "C", "G"}
          [] wildcard /\ u = "N" -> {"A", "C", "G", "T"}
          [] OTHER -> {}

\* Whether two characters match under the mode the flags select.
CharactersMatch(r, q, wildcard_ref, wildcard_query) ==
    IF ~wildcard_ref /\ ~wildcard_query
    THEN r = q
    ELSE Nucleotides(r, wildcard_ref) \cap Nucleotides(q, wildcard_query) # {}

\* C10: compare_prefixes returns (0, L, 0, L, matches, L - matches) with
\* L = min(|ref|, |query|) and matches the number of positions below L at
\* which ref and query match under the mode the flags select; and
\* compare_prefixes(s, s, false, false) = (0, |s|, 0, |s|, |s|, 0).
C10_ComparePrefixes ==
    (call.op = "compare_prefixes" /\ call.ret # Pending) =>
        LET ref == call.args[1]
            query == call.args[2]
            L == Min(Len(ref), Len(query))
            M == Cardinality({ i \in 1..L :
                     CharactersMatch(ref[i], query[i], call.args[3], call.args[4]) })
        IN  /\ call.ret = Returned(<<0, L, 0, L, M, L - M>>)
            /\ (ref = query /\ ~call.args[3] /\ ~call.args[4]) =>
                  call.ret = Returned(<<0, Len(ref), 0, Len(ref), Len(ref), 0>>)

\* A call with wildcards in the reference only that counted a match and a
\* mismatch.
C10_Witness ==
    /\ call.op = "compare_prefixes"
    /\ call.ret.kind = "tuple"
    /\ call.args[3] /\ ~call.args[4]
    /\ call.ret.t[5] >= 1
    /\ call.ret.t[6] >= 1


\* ----------------------------------------------------------------- C11

\* One column of the engine without banding: rows 1..m are all computed and
\* the bottom row is an exit in every column when stop_in_query is set.
FullColumnStep(obj, s2, j, st) ==
    LET column == FillRows(obj, s2, j, FirstEntry(obj, st.column, j),
                           st.column[0], 1, obj.m)
        e == column[obj.m]
        length == obj.m + Min(e.origin, 0)
    IN  IF obj.stop_in_query /\ Accepts(obj, length, e.cost, e.matches, st.best)
        THEN [column |-> column,
              best |-> Match(e.origin, e.cost, e.matches, obj.m, j),
              stop |-> ExactMatch(obj, e.cost, e.matches)]
        ELSE [column |-> column, best |-> st.best, stop |-> FALSE]

RECURSIVE FullColumns(_, _, _, _, _)
FullColumns(obj, s2, j, max_n, st) ==
    IF j > max_n \/ st.stop THEN st
    ELSE FullColumns(obj, s2, j + 1, max_n, FullColumnStep(obj, s2, j, st))

\* locate over the full matrix: the seeding, recurrence, exits and return of
\* LocateRun, with every row of every column computed.
FullMatrixRun(obj, query) ==
    LET n == Len(query)
        s2 == QueryBytes(obj, query)
        min_n == MinN(obj, n)
        max_n == MaxN(obj, n)
        st == FullColumns(obj, s2, min_n + 1, max_n,
                          [column |-> SeedColumn(obj, obj.column, min_n),
                           best |-> InitBest(obj, n),
                           stop |-> FALSE])
        best == IF max_n = n
                THEN Sweep(obj, st.column, n, FirstRow(obj), st.best)
                ELSE st.best
    IN  [ret |-> Outcome(obj, n, best), column |-> st.column]

\* C11: every locate call returns what the full-matrix engine returns, and
\* in the column the call ends on, a row whose cost is at most k in either
\* engine holds the same cost, matches and origin in both (so a row the band
\* left out holds a cost above k).
C11_BandingKeepsResult ==
    call.op = "locate" =>
        LET full == FullMatrixRun(self, Query)
        IN  /\ call.ret = full.ret
            /\ \A i \in 0..self.m :
                  (self.column[i].cost <= MaxErrors(self)
                      \/ full.column[i].cost <= MaxErrors(self))
                  => self.column[i] = full.column[i]

\* A locate call that returned a tuple with errors although the band left
\* out a row of the last column: the row holds a stale entry that differs
\* from the full matrix.
C11_Witness ==
    /\ LocateReturnedTuple
    /\ errors > 0
    /\ ~self.start_in_reference
    /\ \E i \in 0..self.m : self.column[i] # FullMatrixRun(self, Query).column[i]

\* ----------------------------------------------------------------- C12

\* Some exit cell of the call passed the acceptance test, in a bottom-row
\* check or in the final-column sweep. The first cell accepted has matches
\* above 0 or a cost below m + n and every later one has more matches or
\* fewer errors, so best differs from its initial value from then on.
Accepted(obj, query) == LocateRun(obj, query).best # InitBest(obj, Len(query))

\* C12: locate returns None exactly when no exit cell passed the acceptance
\* test: after an update best.cost is never the sentinel m + n.
C12_NoneIffNothingAccepted ==
    call.op = "locate" => (call.ret = None <=> ~Accepted(self, Query))

====
